---- MODULE Spec2Model ----
(***************************************************************************)
(* Model of src/dashbd.py, a Streamlit script: every user interaction      *)
(* re-runs the script top to bottom.  A run loads the memoized table,      *)
(* reads the three sidebar widgets, filters, and draws the KPI tiles, the  *)
(* charts and the download button.  An uncaught exception stops the run    *)
(* where it is raised; what was drawn before it stays on the page.         *)
(*                                                                         *)
(* Tables hold well-formed records (every label and number present); the   *)
(* faults of a source file that are modelled are: the file is missing, a   *)
(* required column is missing, a date cell does not parse, no data rows.   *)
(***************************************************************************)
EXTENDS Integers, Sequences, FiniteSets, TLC

\* ------------------------------------------------------------------ bounds
MaxRows == 3
MaxFaultRows == 1
MaxReads == 2

\* ------------------------------------------------------------ small helpers
Range(s) == {s[i] : i \in 1..Len(s)}

RECURSIVE SumSeq(_)
SumSeq(s) == IF s = <<>> THEN 0 ELSE s[1] + SumSeq(Tail(s))

Without(s, c) == SelectSeq(s, LAMBDA x : x # c)

\* A calendar of Months x Days; a Timestamp adds the time of day.
Months == 1..2
Days == 1..2
Dates == [m : Months, d : Days]

DateLE(a, b) == a.m < b.m \/ (a.m = b.m /\ a.d <= b.d)

\* Lexical order of the labels of the data (str comparison).
Labels == <<"Chairs", "East", "Tables", "West">>
LabelRank(l) == CHOOSE i \in 1..Len(Labels) : Labels[i] = l
LabelLE(a, b) == LabelRank(a) <= LabelRank(b)

\* --------------------------------------------------------- the source file
\* A date cell of the text: "2024-01-02" (kind date), "2024-01-02 10:00:00"
\* (kind datetime) or text that is no date (kind text).
DateCell(k, m, d, t) == [kind |-> k, m |-> m, d |-> d, t |-> t]

FullHeader ==
  <<"Order ID", "Order Date", "Region", "Category", "Sales", "Profit", "Quantity">>

Record(id, ts, region, category, sales, profit, quantity) ==
  [c \in Range(FullHeader) |->
     CASE c = "Order ID" -> id
       [] c = "Order Date" -> ts
       [] c = "Region" -> region
       [] c = "Category" -> category
       [] c = "Sales" -> sales
       [] c = "Profit" -> profit
       [] c = "Quantity" -> quantity]

Ts(m, d, t) == [m |-> m, d |-> d, t |-> t]

\* The records the source files are drawn from: the three of the scenario
\* of the specification (the third not at midnight) and one sold at a loss.
RowPool ==
  { Record("A1", Ts(1, 1, 0), "East", "Chairs", 100, 10, 1),
    Record("A2", Ts(2, 1, 0), "West", "Tables", 200, 20, 2),
    Record("A3", Ts(2, 2, 1), "East", "Chairs", 50, 5, 1),
    Record("A4", Ts(1, 2, 0), "West", "Chairs", 80, 0 - 8, 3) }

SeqsUpTo(S, n) == UNION {[1..k -> S] : k \in 0..n}

\* Series of timestamps -> text, as DataFrame.to_csv writes a datetime64
\* column: date only when every value is at midnight, else date and time.
AllMidnight(rows, c) == \A i \in 1..Len(rows) : rows[i][c].t = 0

FormatTs(ts, dateOnly) ==
  IF dateOnly THEN DateCell("date", ts.m, ts.d, 0)
  ELSE DateCell("datetime", ts.m, ts.d, ts.t)

FormatRows(rows, header, dtcols) ==
  [i \in 1..Len(rows) |->
     [c \in Range(header) |->
        IF c \in dtcols THEN FormatTs(rows[i][c], AllMidnight(rows, c))
        ELSE rows[i][c]]]

TextFile(header, rows) == [exists |-> TRUE, header |-> header, rows |-> rows]

MissingFile == [exists |-> FALSE, header |-> <<>>, rows |-> <<>>]

WellFormedFiles ==
  {TextFile(FullHeader, FormatRows(rs, FullHeader, {"Order Date"})) :
     rs \in SeqsUpTo(RowPool, MaxRows)}

DropColumn(f, c) ==
  TextFile(Without(f.header, c),
           [i \in 1..Len(f.rows) |-> [k \in Range(f.header) \ {c} |-> f.rows[i][k]]])

BadDate(f, i) ==
  [f EXCEPT !.rows[i]["Order Date"] = DateCell("text", 0, 0, 0)]

SmallFiles ==
  {TextFile(FullHeader, FormatRows(rs, FullHeader, {"Order Date"})) :
     rs \in SeqsUpTo(RowPool, MaxFaultRows) \ {<<>>}}

FaultyFiles ==
  {MissingFile}
    \cup {DropColumn(f, c) : f \in SmallFiles, c \in Range(FullHeader)}
    \cup {BadDate(f, i) : f \in SmallFiles, i \in 1..MaxFaultRows}

SourceFiles == WellFormedFiles \cup FaultyFiles

\* ------------------------------------------------------------- the loader
NoTable == [columns |-> <<>>, index |-> <<>>, rows |-> <<>>, dates |-> "none"]

Raise(e) == [ok |-> FALSE, err |-> e, df |-> NoTable]
Return(t) == [ok |-> TRUE, err |-> "", df |-> t]

ParseCell(cell) == Ts(cell.m, cell.d, cell.t)

\* pd.read_csv(path, parse_dates=["Order Date"]): a missing file and a missing
\* parse_dates column raise; a column with a cell that is no date, and the
\* column of a text with no data rows, are left unconverted (dtype object).
read_csv(f) ==
  IF ~f.exists THEN Raise("FileNotFoundError")
  ELSE IF "Order Date" \notin Range(f.header) THEN Raise("ValueError")
  ELSE LET parses == /\ Len(f.rows) > 0
                     /\ \A i \in 1..Len(f.rows) :
                          f.rows[i]["Order Date"].kind \in {"date", "datetime"}
       IN Return([columns |-> f.header,
                  index |-> [i \in 1..Len(f.rows) |-> i - 1],
                  rows |-> IF parses
                           THEN [i \in 1..Len(f.rows) |->
                                   [f.rows[i] EXCEPT !["Order Date"] = ParseCell(@)]]
                           ELSE f.rows,
                  dates |-> IF parses THEN "datetime64" ELSE "object"])

\* .dt.to_period("M").dt.to_timestamp(): the first day of the month, midnight.
OrderMonth(ts) == Ts(ts.m, 1, 0)

\* df["Order Month"] = ...: a new column goes last, an existing one is overwritten.
SetOrderMonth(t) ==
  [t EXCEPT
     !.columns = IF "Order Month" \in Range(t.columns) THEN @
                 ELSE Append(@, "Order Month"),
     !.rows = [i \in 1..Len(t.rows) |->
                 [c \in Range(t.columns) \cup {"Order Month"} |->
                    IF c = "Order Month" THEN OrderMonth(t.rows[i]["Order Date"])
                    ELSE t.rows[i][c]]]]

\* The body of load_data: the .dt accessor raises on a column that is not
\* datetime64.
load_data(f) ==
  LET r == read_csv(f)
  IN IF ~r.ok THEN r
     ELSE IF r.df.dates # "datetime64" THEN Raise("AttributeError")
     ELSE Return(SetOrderMonth(r.df))

\* ------------------------------------------------------- table primitives
Column(t, c) == [i \in 1..Len(t.rows) |-> t.rows[i][c]]

\* Series.min() / Series.max() of the timestamps (NaT for no values), then
\* .date().
TsLE(a, b) == a.m < b.m \/ (a.m = b.m /\ (a.d < b.d \/ (a.d = b.d /\ a.t <= b.t)))
DateOf(ts) == [m |-> ts.m, d |-> ts.d]
NaT == Ts(0, 0, 0)
MinTs(s) == IF Len(s) = 0 THEN NaT ELSE CHOOSE x \in Range(s) : \A y \in Range(s) : TsLE(x, y)
MaxTs(s) == IF Len(s) = 0 THEN NaT ELSE CHOOSE x \in Range(s) : \A y \in Range(s) : TsLE(y, x)

\* Series.unique(), as the set of the options a multiselect offers.
Unique(s) == Range(s)

\* df[mask]: the rows whose mask is True, under their own index labels.
Positions(mask) == {i \in 1..Len(mask) : mask[i]}

RECURSIVE Ascending(_)
Ascending(S) ==
  IF S = {} THEN <<>>
  ELSE LET x == CHOOSE a \in S : \A b \in S : a <= b
       IN <<x>> \o Ascending(S \ {x})

BooleanIndex(t, mask) ==
  LET keep == Ascending(Positions(mask))
  IN [t EXCEPT !.index = [k \in 1..Len(keep) |-> t.index[keep[k]]],
               !.rows = [k \in 1..Len(keep) |-> t.rows[keep[k]]]]

\* Series.sum() and Series.mean(); the mean of no values is NaN.
NaN == [nan |-> TRUE, num |-> 0, den |-> 1]
Sum(s) == SumSeq(s)
Mean(s) == IF Len(s) = 0 THEN NaN ELSE [nan |-> FALSE, num |-> SumSeq(s), den |-> Len(s)]

\* groupby(by), sort=True: one group per key value present, the groups in
\* ascending order of the key; by is the list of the key columns and a key the
\* tuple of their values (timestamps in time order, labels in lexical order,
\* tuples position by position).
Key(by, r) == [j \in 1..Len(by) |-> r[by[j]]]

ValueLE(c, a, b) == IF c = "Order Month" THEN TsLE(a, b) ELSE LabelLE(a, b)

KeyLE(by, a, b) ==
  \E j \in 1..(Len(by) + 1) :
    /\ \A i \in 1..(j - 1) : a[i] = b[i]
    /\ j = Len(by) + 1 \/ (a[j] # b[j] /\ ValueLE(by[j], a[j], b[j]))

SortKeys(S, by) ==
  [j \in 1..Cardinality(S) |->
     CHOOSE k \in S : Cardinality({x \in S : KeyLE(by, x, k)}) = j]

\* GroupKeys with sort=False: the keys in order of first appearance.
GroupKeys_Unsorted(t, by) ==
  LET first == {i \in 1..Len(t.rows) :
                  \A j \in 1..(i - 1) : Key(by, t.rows[j]) # Key(by, t.rows[i])}
      at == Ascending(first)
  IN [j \in 1..Len(at) |-> Key(by, t.rows[at[j]])]

GroupKeys(t, by) == SortKeys({Key(by, t.rows[i]) : i \in 1..Len(t.rows)}, by)

GroupRows(t, by, k) == SelectSeq(t.rows, LAMBDA r : Key(by, r) = k)

Values(rows, c) == [i \in 1..Len(rows) |-> rows[i][c]]

\* GroupSum taking each group's first value (.first() for .sum()).
GroupSum_First(t, by, c) ==
  LET ks == GroupKeys(t, by)
  IN [j \in 1..Len(ks) |->
        [key |-> ks[j], value |-> Values(GroupRows(t, by, ks[j]), c)[1]]]

\* groupby(by)[c].sum().reset_index() and groupby(by)[c].mean().reset_index()
GroupSum(t, by, c) ==
  LET ks == GroupKeys(t, by)
  IN [j \in 1..Len(ks) |->
        [key |-> ks[j], value |-> Sum(Values(GroupRows(t, by, ks[j]), c))]]

GroupMean(t, by, c) ==
  LET ks == GroupKeys(t, by)
  IN [j \in 1..Len(ks) |->
        [key |-> ks[j], value |-> Mean(Values(GroupRows(t, by, ks[j]), c))]]

\* DataFrame.to_csv(index=False): the header and the rows in the table's order,
\* the index labels not written.
DatetimeColumns(t) == {c \in Range(t.columns) : c \in {"Order Date", "Order Month"}}
to_csv(t) == TextFile(t.columns, FormatRows(t.rows, t.columns, DatetimeColumns(t)))

\* ------------------------------------------------------------ the script
VARIABLES
  file,        \* sales.csv, as it is on disk
  cache,       \* st.cache_data's entry for load_data("sales.csv")
  reads,       \* how many times read_csv has read the file
  ui,          \* the session's widget state (values the user has set)
  pc,          \* where the running script is
  err,         \* the uncaught exception that stopped the run
  df,          \* module-level names of the script
  date_range, regions, categories, filtered,
  drawn,       \* the elements the run has put on the page, in order
  memo         \* observer: the selection and the page of one earlier run

run == <<pc, err, df, date_range, regions, categories, filtered, drawn>>
vars == <<file, cache, reads, ui, run, memo>>

NoCache == [full |-> FALSE, df |-> NoTable]
NoUi == [set |-> FALSE, date_range |-> <<>>, regions |-> {}, categories |-> {}]
NoErr == [type |-> "", line |-> 0]
NoMemo ==
  [taken |-> FALSE, between |-> FALSE, selection |-> NoUi, filtered |-> NoTable,
   drawn |-> <<>>]

Element(kind, title, data) == [kind |-> kind, title |-> title, data |-> data]

\* The script ends: drawn so far stays, the exception is shown.
Fail(elements, type, line) ==
  /\ drawn' = drawn \o elements
  /\ err' = [type |-> type, line |-> line]
  /\ pc' = "error"

Continue(elements, next) ==
  /\ drawn' = drawn \o elements
  /\ pc' = next
  /\ UNCHANGED err

Init ==
  /\ file \in SourceFiles
  /\ cache = NoCache
  /\ reads = 0
  /\ ui = NoUi
  /\ pc = "load"
  /\ err = NoErr
  /\ df = NoTable
  /\ date_range = <<>>
  /\ regions = {}
  /\ categories = {}
  /\ filtered = NoTable
  /\ drawn = <<>>
  /\ memo = NoMemo

\* What the widgets can hold for a table: one or two dates between min_value
\* and max_value, and any subset of the options.
MinDate(t) == DateOf(MinTs(Column(t, "Order Date")))
MaxDate(t) == DateOf(MaxTs(Column(t, "Order Date")))
DateInputValues(t) ==
  LET D == {d \in Dates : DateLE(MinDate(t), d) /\ DateLE(d, MaxDate(t))}
  IN {<<a>> : a \in D} \cup {<<a, b>> : a \in D, b \in D}
MultiselectValues(t, c) == SUBSET Unique(Column(t, c))

\* One interaction changes one widget (or none: a click on the download
\* button, a reload of the page).
Interactions(w, t) ==
  {[w EXCEPT !.date_range = v] : v \in DateInputValues(t)}
    \cup {[w EXCEPT !.regions = v] : v \in MultiselectValues(t, "Region")}
    \cup {[w EXCEPT !.categories = v] : v \in MultiselectValues(t, "Category")}

\* A user interaction once the run has ended: the script runs again from the top, its
\* names unbound, the page cleared.  Widgets exist only if the last run drew
\* all of them; a load that failed is not cached and reads the file again.
\* (The observer notes a run on another selection than the one it remembers.)
Rerun ==
  /\ pc \in {"done", "error"}
  /\ cache.full \/ reads < MaxReads
  /\ ui' \in IF ui.set THEN Interactions(ui, cache.df) ELSE {ui}
  /\ pc' = "load"
  /\ err' = NoErr
  /\ df' = NoTable
  /\ date_range' = <<>>
  /\ regions' = {}
  /\ categories' = {}
  /\ filtered' = NoTable
  /\ drawn' = <<>>
  /\ memo' = IF memo.taken /\ ui' # memo.selection THEN [memo EXCEPT !.between = TRUE]
              ELSE memo
  /\ UNCHANGED <<file, cache, reads>>

\* LoadData without the st.cache_data decorator: every run reads the file.
LoadData_NoCache ==
  /\ pc = "load"
  /\ LET r == load_data(file)
     IN /\ reads' = reads + 1
        /\ IF r.ok
           THEN /\ cache' = [full |-> TRUE, df |-> r.df]
                /\ df' = r.df
                /\ Continue(<<Element("write", "Data loaded:", Len(r.df.rows)),
                              Element("write", "head", r.df.index)>>, "sidebar")
           ELSE /\ Fail(<<>>, r.err, 12 + (IF r.err = "AttributeError" THEN 2 ELSE 0))
                /\ UNCHANGED <<cache, df>>
  /\ UNCHANGED <<file, ui, date_range, regions, categories, filtered, memo>>

\* Lines 10-19: df = load_data(), memoized by st.cache_data (a hit returns a
\* copy of the stored table and does not run the body), then two st.write.
LoadData ==
  /\ pc = "load"
  /\ IF cache.full
     THEN /\ df' = cache.df
          /\ Continue(<<Element("write", "Data loaded:", Len(cache.df.rows)),
                        Element("write", "head", cache.df.index)>>, "sidebar")
          /\ UNCHANGED <<cache, reads>>
     ELSE LET r == load_data(file)
          IN /\ reads' = reads + 1
             /\ IF r.ok
                THEN /\ cache' = [full |-> TRUE, df |-> r.df]
                     /\ df' = r.df
                     /\ Continue(<<Element("write", "Data loaded:", Len(r.df.rows)),
                                   Element("write", "head", r.df.index)>>, "sidebar")
                ELSE /\ Fail(<<>>, r.err, 12 + (IF r.err = "AttributeError" THEN 2 ELSE 0))
                     /\ UNCHANGED <<cache, df>>
  /\ UNCHANGED <<file, ui, date_range, regions, categories, filtered, memo>>

\* Lines 21-28: the widgets return the session's value, or their default on
\* the first run.
Sidebar ==
  /\ pc = "sidebar"
  /\ LET cols == Range(df.columns)
         dflt == [set |-> TRUE,
                  date_range |-> <<MinDate(df), MaxDate(df)>>,
                  regions |-> Unique(Column(df, "Region")),
                  categories |-> Unique(Column(df, "Category"))]
         w == IF ui.set THEN ui ELSE dflt
         date_input == Element("date_input", "Order Date range", 0)
     IN IF "Region" \notin cols
        THEN /\ Fail(<<date_input>>, "KeyError", 27)
             /\ UNCHANGED <<ui, date_range, regions, categories>>
        ELSE IF "Category" \notin cols
        THEN /\ Fail(<<date_input, Element("multiselect", "Region", 0)>>, "KeyError", 28)
             /\ UNCHANGED <<ui, date_range, regions, categories>>
        ELSE /\ ui' = w
             /\ date_range' = w.date_range
             /\ regions' = w.regions
             /\ categories' = w.categories
             /\ Continue(<<date_input, Element("multiselect", "Region", 0),
                           Element("multiselect", "Category", 0)>>, "filter")
  /\ UNCHANGED <<file, cache, reads, df, filtered, memo>>

\* Mask with the end date taken as a timestamp (midnight of that day).
Mask_EndAtMidnight(t, dr, rs, cs) ==
  [i \in 1..Len(t.rows) |->
     /\ DateLE(dr[1], DateOf(t.rows[i]["Order Date"]))
     /\ TsLE(t.rows[i]["Order Date"], Ts(dr[2].m, dr[2].d, 0))
     /\ t.rows[i]["Region"] \in rs
     /\ t.rows[i]["Category"] \in cs]

\* Mask with an empty multiselect taken as "no filter".
Mask_EmptyMeansAll(t, dr, rs, cs) ==
  [i \in 1..Len(t.rows) |->
     /\ DateLE(dr[1], DateOf(t.rows[i]["Order Date"]))
     /\ DateLE(DateOf(t.rows[i]["Order Date"]), dr[2])
     /\ (rs = {} \/ t.rows[i]["Region"] \in rs)
     /\ (cs = {} \/ t.rows[i]["Category"] \in cs)]

\* Lines 31-36: the four element-wise tests, and-ed.  date_range[0] and
\* date_range[1] index a tuple.
Mask(t, dr, rs, cs) ==
  [i \in 1..Len(t.rows) |->
     /\ DateLE(dr[1], DateOf(t.rows[i]["Order Date"]))
     /\ DateLE(DateOf(t.rows[i]["Order Date"]), dr[2])
     /\ t.rows[i]["Region"] \in rs
     /\ t.rows[i]["Category"] \in cs]

\* ApplyFilters on a table shared with the cache, narrowing it in place.
ApplyFilters_InPlace ==
  /\ pc = "filter"
  /\ IF Len(date_range) < 2
     THEN /\ Fail(<<>>, "IndexError", 33)
          /\ UNCHANGED <<filtered, cache>>
     ELSE /\ filtered' = BooleanIndex(df, Mask(df, date_range, regions, categories))
          /\ cache' = [cache EXCEPT !.df = filtered']
          /\ Continue(<<>>, "kpi")
  /\ UNCHANGED <<file, reads, ui, df, date_range, regions, categories, memo>>

\* Lines 30-37.
ApplyFilters ==
  /\ pc = "filter"
  /\ IF Len(date_range) < 2
     THEN /\ Fail(<<>>, "IndexError", 33)
          /\ UNCHANGED filtered
     ELSE /\ filtered' = BooleanIndex(df, Mask(df, date_range, regions, categories))
          /\ Continue(<<>>, "kpi")
  /\ UNCHANGED <<file, cache, reads, ui, df, date_range, regions, categories, memo>>

\* f"${x:,.2f}": a number or nan after the dollar sign ("$nan" for NaN).
Number(n) == [nan |-> FALSE, num |-> n, den |-> 1]
Currency(q) == [text |-> "$", amount |-> q]

\* Lines 39-46: the title, then the four tiles; each argument is evaluated
\* before its tile is drawn, and ['Sales'] raises KeyError on a missing column.
KPI ==
  /\ pc = "kpi"
  /\ LET cols == Range(filtered.columns)
         title == Element("title", "Retail Sales Dashboard", 0)
         sales == Element("metric", "Total Sales",
                          Currency(Number(Sum(Column(filtered, "Sales")))))
         profit == Element("metric", "Total Profit",
                           Currency(Number(Sum(Column(filtered, "Profit")))))
         avg == Element("metric", "Avg Order Value",
                        Currency(Mean(Column(filtered, "Sales"))))
         orders == Element("metric", "Orders", Len(filtered.rows))
     IN IF "Sales" \notin cols THEN Fail(<<title>>, "KeyError", 43)
        ELSE IF "Profit" \notin cols THEN Fail(<<title, sales>>, "KeyError", 44)
        ELSE Continue(<<title, sales, profit, avg, orders>>, "timeseries")
  /\ UNCHANGED <<file, cache, reads, ui, df, date_range, regions, categories, filtered, memo>>

\* Lines 49-61: monthly = groupby("Order Month").agg(Sales sum, Profit sum).
Monthly(t) ==
  [sales |-> GroupSum(t, <<"Order Month">>, "Sales"),
   profit |-> GroupSum(t, <<"Order Month">>, "Profit")]

TimeSeries ==
  /\ pc = "timeseries"
  /\ Continue(<<Element("chart", "Monthly Sales and Profit", Monthly(filtered))>>,
              "categorical")
  /\ UNCHANGED <<file, cache, reads, ui, df, date_range, regions, categories, filtered, memo>>

\* Lines 63-78: region_sales, cat_sales, treemap.
RegionSales(t) == GroupSum(t, <<"Region">>, "Sales")
CatSales(t) == GroupSum(t, <<"Category">>, "Sales")
Treemap(t) == GroupSum(t, <<"Region", "Category">>, "Sales")

Categorical ==
  /\ pc = "categorical"
  /\ Continue(<<Element("chart", "Sales by Region", RegionSales(filtered)),
                Element("chart", "Category Share", CatSales(filtered)),
                Element("chart", "Sales Treemap", Treemap(filtered))>>, "distribution")
  /\ UNCHANGED <<file, cache, reads, ui, df, date_range, regions, categories, filtered, memo>>

\* Lines 80-96: four row-level charts; px.scatter raises ValueError when a
\* column named in size= or hover_data= is not in the table.
Distribution ==
  /\ pc = "distribution"
  /\ LET cols == Range(filtered.columns)
         hist == Element("chart", "Sales Distribution", Column(filtered, "Sales"))
     IN IF ~({"Quantity", "Order ID"} \subseteq cols)
        THEN Fail(<<hist>>, "ValueError", 88)
        ELSE Continue(<<hist,
                        Element("chart", "Sales vs Profit", filtered.index),
                        Element("chart", "Box plot - Sales by Category", filtered.index),
                        Element("chart", "Violin - Profit by Category", filtered.index)>>,
                      "correlation")
  /\ UNCHANGED <<file, cache, reads, ui, df, date_range, regions, categories, filtered, memo>>

\* Lines 98-103: DataFrame.empty is True for a table of no rows.  The
\* coefficients are not computed here: the element holds corr()'s input.
\* Empty testing the column list only.
Empty_NoColumns(t) == Len(t.columns) = 0

NumCols(t) ==
  [i \in 1..Len(t.rows) |-> <<t.rows[i]["Sales"], t.rows[i]["Profit"], t.rows[i]["Quantity"]>>]
Empty(t) == Len(t.rows) = 0 \/ Len(t.columns) = 0

Correlation ==
  /\ pc = "correlation"
  /\ IF ~Empty(filtered)
     THEN Continue(<<Element("subheader", "Correlation Matrix", 0),
                     Element("chart", "Correlation", NumCols(filtered))>>, "arealine")
     ELSE Continue(<<>>, "arealine")
  /\ UNCHANGED <<file, cache, reads, ui, df, date_range, regions, categories, filtered, memo>>

\* Lines 105-113: area and aov.
Area(t) == GroupSum(t, <<"Order Month", "Category">>, "Sales")
Aov(t) == GroupMean(t, <<"Order Month">>, "Sales")

AreaLine ==
  /\ pc = "arealine"
  /\ Continue(<<Element("chart", "Area: Sales by Category Over Time", Area(filtered)),
                Element("chart", "Monthly AOV", Aov(filtered))>>, "download")
  /\ UNCHANGED <<file, cache, reads, ui, df, date_range, regions, categories, filtered, memo>>

\* Lines 115-119: csv = filtered.to_csv(index=False), offered as a download.
Download ==
  /\ pc = "download"
  /\ Continue(<<Element("download_button", "filtered_sales.csv", to_csv(filtered))>>, "done")
  /\ UNCHANGED <<file, cache, reads, ui, df, date_range, regions, categories, filtered, memo>>

\* Observer: remember one finished run, to compare a later one with.
Snapshot ==
  /\ pc = "done"
  /\ memo' = [taken |-> TRUE, between |-> FALSE, selection |-> ui,
               filtered |-> filtered, drawn |-> drawn]
  /\ UNCHANGED <<file, cache, reads, ui, run>>

Next ==
  \/ Rerun
  \/ LoadData
  \/ Sidebar
  \/ ApplyFilters
  \/ KPI
  \/ TimeSeries
  \/ Categorical
  \/ Distribution
  \/ Correlation
  \/ AreaLine
  \/ Download

Spec == Init /\ [][Next]_vars

\* A second specification, for statements about two runs: the observer may
\* remember any finished run.  Its source files are the orderings of two
\* records of the same month.
HistFiles ==
  {f \in WellFormedFiles :
     /\ Len(f.rows) = 2
     /\ f.rows[1] # f.rows[2]
     /\ \A i \in 1..2 : f.rows[i]["Order Date"].m = 2}

InitHist == Init /\ file \in HistFiles

NextHist == Next \/ Snapshot

SpecHist == InitHist /\ [][NextHist]_vars

\* ------------------------------------------------------------- properties
\* The line the run is at (the next statement, or the one that raised).
AtLine ==
  CASE pc = "load" -> 10
    [] pc = "sidebar" -> 21
    [] pc = "filter" -> 30
    [] pc = "kpi" -> 39
    [] pc = "timeseries" -> 49
    [] pc = "categorical" -> 63
    [] pc = "distribution" -> 80
    [] pc = "correlation" -> 98
    [] pc = "arealine" -> 105
    [] pc = "download" -> 115
    [] pc = "done" -> 120
    [] pc = "error" -> err.line

\* The run has executed line n without an exception.
Past(n) == AtLine > n

\* The table of this run has the seven required columns.
Complete == Range(FullHeader) \subseteq Range(df.columns)

\* The selection of this run is a full one: a start and an end date.
FullSelection == Past(28) /\ Len(date_range) = 2

HasElement(title) == \E i \in 1..Len(drawn) : drawn[i].title = title
ElementData(title) == drawn[CHOOSE i \in 1..Len(drawn) : drawn[i].title = title].data

RECURSIVE SumOver(_, _)
SumOver(f, S) ==
  IF S = {} THEN 0
  ELSE LET i == CHOOSE j \in S : TRUE IN f[i] + SumOver(f, S \ {i})

\* Row i of the loaded table satisfies the four predicates of the selection.
Satisfies(i) ==
  LET od == df.rows[i]["Order Date"]
      lo == date_range[1]
      hi == date_range[2]
  IN /\ lo.m < od.m \/ (lo.m = od.m /\ lo.d <= od.d)
     /\ od.m < hi.m \/ (od.m = hi.m /\ od.d <= hi.d)
     /\ df.rows[i]["Region"] \in regions
     /\ df.rows[i]["Category"] \in categories

\* C1: once the filter has run on a full selection, the filtered table is
\* exactly the rows of the loaded table that satisfy the four predicates
\* (dates compared by calendar day, both bounds inclusive), in the loaded
\* table's order: none missing, none extra.
C1_FilterIsConjunctiveSubset ==
  (FullSelection /\ Past(37)) =>
    /\ \A k \in 1..(Len(filtered.index) - 1) : filtered.index[k] < filtered.index[k + 1]
    /\ Range(filtered.index) = {i - 1 : i \in {j \in 1..Len(df.rows) : Satisfies(j)}}
    /\ Len(filtered.rows) = Len(filtered.index)
    /\ \A k \in 1..Len(filtered.index) : filtered.rows[k] = df.rows[filtered.index[k] + 1]
    /\ filtered.columns = df.columns

\* C1's case: a run that kept some rows and dropped others, keeping a row
\* whose Order Date is on the end date but not at midnight.
C1_Witness ==
  /\ pc = "done"
  /\ 0 < Len(filtered.rows) /\ Len(filtered.rows) < Len(df.rows)
  /\ \E k \in 1..Len(filtered.rows) :
       /\ filtered.rows[k]["Order Date"].t # 0
       /\ DateOf(filtered.rows[k]["Order Date"]) = date_range[2]

Degenerate ==
  \/ regions = {}
  \/ categories = {}
  \/ ~DateLE(date_range[1], date_range[2])

\* C2: with an empty region set, an empty category set or a start date after
\* the end date, the run raises nothing and the filtered table has no rows,
\* whatever the rest of the selection is; the run goes on with that table.
C2_DegenerateSelectionIsEmpty ==
  (Complete /\ FullSelection /\ Degenerate) =>
    /\ pc # "error"
    /\ Past(37) => Len(filtered.rows) = 0 /\ Len(filtered.index) = 0

\* C2's case: a run finished with start > end and both sets non-empty.
C2_Witness ==
  /\ pc = "done"
  /\ Len(date_range) = 2
  /\ ~DateLE(date_range[1], date_range[2])
  /\ regions # {} /\ categories # {}

\* C3: on an empty filtered table the KPI tiles are drawn (sums and count 0,
\* Avg Order Value nan) and the run does not stop; the correlation matrix is
\* drawn exactly when the filtered table has a row.
C3_EmptyTableDegradesGracefully ==
  /\ (Complete /\ Past(37) /\ Len(filtered.rows) = 0) => pc # "error"
  /\ (Complete /\ Past(46) /\ Len(filtered.rows) = 0) =>
       /\ ElementData("Total Sales") = Currency(Number(0))
       /\ ElementData("Total Profit") = Currency(Number(0))
       /\ ElementData("Avg Order Value") = Currency(NaN)
       /\ ElementData("Orders") = 0
  /\ (Complete /\ Past(103)) =>
       /\ HasElement("Correlation") <=> Len(filtered.rows) > 0
       /\ HasElement("Correlation Matrix") <=> Len(filtered.rows) > 0

\* C3's case: a run finished on an empty filtered table.
C3_Witness == pc = "done" /\ Len(filtered.rows) = 0 /\ ~HasElement("Correlation")

\* The source file has a load-time fault: it is missing, lacks a required
\* column, or has an Order Date that is no date.
LoadFault ==
  \/ ~file.exists
  \/ ~(Range(FullHeader) \subseteq Range(file.header))
  \/ \E i \in 1..Len(file.rows) : file.rows[i]["Order Date"].kind = "text"

\* C4: on a source file with a load-time fault the run stops in load_data
\* (lines 10-15) with an exception, and no KPI tile and no chart is drawn.
C4_LoadFaultStopsAtLoad ==
  (LoadFault /\ pc # "load") =>
    /\ pc = "error"
    /\ err.line <= 15
    /\ \A i \in 1..Len(drawn) : drawn[i].kind \notin {"metric", "chart"}

\* C5: the text offered for download, loaded by load_data, is a table with
\* the columns and the rows (order and values) of the filtered table.
C5_ExportRoundTrips ==
  (Complete /\ pc = "done") =>
    LET r == load_data(ElementData("filtered_sales.csv"))
    IN /\ r.ok
       /\ r.df.columns = filtered.columns
       /\ r.df.rows = filtered.rows

\* C6: once load_data("sales.csv") is memoized, no step of any run changes
\* the stored table, and the file has been read once and is not read again.
C6_LoadedTableIsReadOnly ==
  [][cache.full => (reads = 1 /\ cache' = cache /\ reads' = reads)]_vars

\* C6's case: a later run, served from the cache, has filtered and exported.
C6_Witness ==
  /\ pc = "done"
  /\ cache.full /\ reads = 1
  /\ ui # [set |-> TRUE,
           date_range |-> <<MinDate(df), MaxDate(df)>>,
           regions |-> Unique(Column(df, "Region")),
           categories |-> Unique(Column(df, "Category"))]
  /\ Len(filtered.rows) < Len(cache.df.rows)

\* C7: a finished run whose selection is that of a remembered earlier run has
\* the same filtered table and the same page (KPI values, aggregate tables,
\* export), whatever was rendered in between.
C7_SameSelectionSamePage ==
  (memo.taken /\ pc = "done" /\ memo.selection = ui) =>
    /\ filtered = memo.filtered
    /\ drawn = memo.drawn

\* C7's case: a run with the remembered selection has finished after a run on
\* another selection, the remembered run having kept some rows but not all.
C7_Witness ==
  /\ memo.taken /\ memo.between /\ pc = "done" /\ memo.selection = ui
  /\ Len(memo.filtered.rows) > 0
  /\ Len(memo.filtered.rows) < Len(df.rows)

\* The key of filtered row i, and the order of two keys: months by calendar
\* month, labels lexically, pairs by their first then their second part.
RowKey(by, i) == [j \in 1..Len(by) |-> filtered.rows[i][by[j]]]
Ordinal(c, v) == IF c = "Order Month" THEN v.m ELSE LabelRank(v)
Before(by, a, b) ==
  \/ Ordinal(by[1], a[1]) < Ordinal(by[1], b[1])
  \/ /\ Ordinal(by[1], a[1]) = Ordinal(by[1], b[1])
     /\ Len(by) = 2
     /\ Ordinal(by[2], a[2]) < Ordinal(by[2], b[2])
RowsOf(by, k) == {i \in 1..Len(filtered.rows) : RowKey(by, i) = k}
Measure(c) == [i \in 1..Len(filtered.rows) |-> filtered.rows[i][c]]

Grouped(agg, by) ==
  /\ {agg[j].key : j \in 1..Len(agg)} = {RowKey(by, i) : i \in 1..Len(filtered.rows)}
  /\ \A j \in 1..(Len(agg) - 1) : Before(by, agg[j].key, agg[j + 1].key)

SumsBy(agg, by, c) ==
  /\ Grouped(agg, by)
  /\ \A j \in 1..Len(agg) : agg[j].value = SumOver(Measure(c), RowsOf(by, agg[j].key))

MeansBy(agg, by, c) ==
  /\ Grouped(agg, by)
  /\ \A j \in 1..Len(agg) :
       agg[j].value = [nan |-> FALSE,
                       num |-> SumOver(Measure(c), RowsOf(by, agg[j].key)),
                       den |-> Cardinality(RowsOf(by, agg[j].key))]

\* C8: each of the grouped aggregates of a finished run has one entry per key
\* of the filtered table and no other, its entries in strictly ascending key
\* order, each holding the sum (the mean) of the measure over the filtered
\* rows of that key.
C8_GroupedAggregates ==
  (Complete /\ pc = "done") =>
    /\ SumsBy(ElementData("Monthly Sales and Profit").sales, <<"Order Month">>, "Sales")
    /\ SumsBy(ElementData("Monthly Sales and Profit").profit, <<"Order Month">>, "Profit")
    /\ SumsBy(ElementData("Sales by Region"), <<"Region">>, "Sales")
    /\ SumsBy(ElementData("Category Share"), <<"Category">>, "Sales")
    /\ SumsBy(ElementData("Sales Treemap"), <<"Region", "Category">>, "Sales")
    /\ SumsBy(ElementData("Area: Sales by Category Over Time"),
              <<"Order Month", "Category">>, "Sales")
    /\ MeansBy(ElementData("Monthly AOV"), <<"Order Month">>, "Sales")

\* C8's case: the source file has a later month before an earlier one and a
\* later label before an earlier one, and a group of the run has two rows.
C8_Witness ==
  /\ pc = "done"
  /\ \E i, j \in 1..Len(filtered.rows) :
       /\ i < j
       /\ filtered.rows[j]["Order Month"].m < filtered.rows[i]["Order Month"].m
       /\ LabelRank(filtered.rows[j]["Region"]) < LabelRank(filtered.rows[i]["Region"])
  /\ \E i, j \in 1..Len(filtered.rows) :
       i # j /\ filtered.rows[i]["Order Month"] = filtered.rows[j]["Order Month"]

Total(agg) == SumOver([j \in 1..Len(agg) |-> agg[j].value], 1..Len(agg))

\* C9: in a finished run the Total Sales tile is the sum of Sales over the
\* filtered rows, the Sales of each of the five grouped aggregates add up to
\* it, and the monthly Profit adds up to the Total Profit tile.
C9_TotalsAgree ==
  (Complete /\ pc = "done") =>
    LET sales == SumOver(Measure("Sales"), 1..Len(filtered.rows))
        profit == SumOver(Measure("Profit"), 1..Len(filtered.rows))
    IN /\ ElementData("Total Sales") = Currency(Number(sales))
       /\ ElementData("Total Profit") = Currency(Number(profit))
       /\ Total(ElementData("Monthly Sales and Profit").sales) = sales
       /\ Total(ElementData("Monthly Sales and Profit").profit) = profit
       /\ Total(ElementData("Sales by Region")) = sales
       /\ Total(ElementData("Category Share")) = sales
       /\ Total(ElementData("Sales Treemap")) = sales
       /\ Total(ElementData("Area: Sales by Category Over Time")) = sales

\* C9's case: a finished run whose filtered rows fall into fewer groups than
\* rows, and one on no rows being covered by the same formula.
C9_Witness ==
  /\ pc = "done"
  /\ Len(filtered.rows) = 3
  /\ Len(ElementData("Sales by Region")) = 2
  /\ Len(ElementData("Monthly Sales and Profit").sales) = 2

\* C10: on a loaded table of at least one row with the required columns no run
\* stops with an exception, whatever the date-range widget returned, and the
\* run on the widgets' defaults keeps every row.
C10_EveryRunReachesDownload ==
  (cache.full /\ Range(FullHeader) \subseteq Range(cache.df.columns)
     /\ Len(cache.df.rows) > 0) =>
    /\ pc # "error"
    /\ (Past(37) /\ date_range = <<MinDate(df), MaxDate(df)>>
          /\ regions = Unique(Column(df, "Region"))
          /\ categories = Unique(Column(df, "Category"))) => filtered = df

====
